---- MODULE Spec2Model ----
(***************************************************************************)
(* Markov models of deampy/markov.py: the cohort simulator                 *)
(* (CohortMarkov.simulate, called once or twice), the constructors of      *)
(* MarkovJumpProcess, Gillespie, CohortMarkov and                          *)
(* ContinuousTimeCohortMarkov, the get_next_state queries of the jump      *)
(* processes, and the conversions continuous_to_discrete and               *)
(* discrete_to_continuous.                                                 *)
(*                                                                         *)
(* Conventions.  State indices are 0-based as in the source; At(seq, i)    *)
(* reads the element the source writes seq[i].  Probabilities are exact    *)
(* multiples of 0.00001, so 1.0 is One, 0.99999 is LowTol and 1.00001 is   *)
(* HighTol.  A value that may be None is <<>> (None) or <<v>> (the value). *)
(***************************************************************************)
EXTENDS Integers, Sequences, FiniteSets, TLC

VARIABLES
    obj,            \* the model object under consideration (a record; class "None" before construction)
    heap,           \* the list objects occupancy vectors live in: heap[r] is the content of list r
    raised,         \* the exception the last operation raised (type "None" when it returned)
    call,           \* the operation invoked last and its arguments
    ret,            \* what the last query returned
    rngLog,         \* the draws made from the caller's random source, in order
    pc,             \* position inside CohortMarkov.simulate
    k,              \* simulate: the loop variable k (time step)
    s,              \* simulate: the loop variable s (state being processed)
    num_to_states,  \* simulate: the local num_to_states
    binomial,       \* simulate: the local binomial (its N and pvals)
    outs,           \* simulate: the local outs
    ic0,            \* the values initial_condition held when simulate was called
    stepDraws,      \* per state, the draw made for it in the current time step
    runs            \* the simulate calls that have returned: arguments, draws and series

vars == <<obj, heap, raised, call, ret, rngLog, pc, k, s, num_to_states,
          binomial, outs, ic0, stepDraws, runs>>

simVars == <<pc, k, s, num_to_states, binomial, outs, ic0, stepDraws, runs>>

-----------------------------------------------------------------------------
(* Bounds of the model *)

\* largest number of rows of a matrix
MaxStates == 2

\* largest total population of an initial condition
MaxPop == 2

\* largest n_time_steps
MaxSteps == 1

-----------------------------------------------------------------------------
(* Numbers *)

\* 0.99999 and 1.00001, in units of 0.00001
LowTol == 99999

HighTol == 100001

One == LowTol + 1

Half == One \div 2

-----------------------------------------------------------------------------
(* Python values *)

None == <<>>

Some(v) == <<v>>

PyList(items) == [type |-> "list", items |-> items]

PyTuple(items) == [type |-> "tuple", items |-> items]

NoError == [type |-> "None"]

NoObject == [class |-> "None"]

At(seq, i) == seq[i + 1]

Range(n) == 0 .. (n - 1)

RECURSIVE SeqSum(_)
SeqSum(q) == IF q = <<>> THEN 0 ELSE q[1] + SeqSum(Tail(q))

Zeros(n) == [i \in 1 .. n |-> 0]

EmptyLists(n) == [i \in 1 .. n |-> <<>>]

\* lst[i] += d
AddAt(lst, i, d) == [lst EXCEPT ![i + 1] = @ + d]

RECURSIVE SeqsOver(_, _)
SeqsOver(S, n) ==
    IF n = 0 THEN {<<>>}
    ELSE {Append(q, x) : q \in SeqsOver(S, n - 1), x \in S}

-----------------------------------------------------------------------------
(* _CohortMarkov and CohortMarkov *)

\* _CohortMarkov.__init__: the empty series; numInStates refers to a fresh empty list
CohortBase(cls, ownList) ==
    [class |-> cls,
     numInStates |-> ownList,
     numInStatesOverTime |-> <<>>,
     numToStatesOverTime |-> <<>>,
     n_time_steps |-> 0]

\* a check that refuses the two ends of the interval as well
RowSumOutside_EndsRefused(sm) == sm <= LowTol \/ sm >= HighTol

\* line 192 and line 371
RowSumOutside(sm) == sm < LowTol \/ sm > HighTol

\* the rows the constructor's loop rejects
BadRows(matrix) == {i \in Range(Len(matrix)) : RowSumOutside(SeqSum(At(matrix, i)))}

Min(S) == CHOOSE x \in S : \A y \in S : x <= y

RowSumError(matrix) ==
    LET i == Min(BadRows(matrix))
    IN [type |-> "ValueError", what |-> "row sum", row |-> i, sum |-> SeqSum(At(matrix, i))]

\* non_zero_probs_indices of one row: the 0-based positions j with p > 0, in order
RECURSIVE NonZeroIndices(_, _)
NonZeroIndices(probs, j) ==
    IF j >= Len(probs) THEN <<>>
    ELSE IF At(probs, j) > 0
         THEN <<j>> \o NonZeroIndices(probs, j + 1)
         ELSE NonZeroIndices(probs, j + 1)

\* non_zero_probs of one row
NonZeroProbs(probs) ==
    LET idx == NonZeroIndices(probs, 0)
    IN [i \in 1 .. Len(idx) |-> At(probs, idx[i])]

\* CohortMarkov.__init__(transition_prob_matrix): the object built, or the exception
CohortMarkovInit(arg) ==
    IF arg.type # "list"
    THEN [obj |-> NoObject,
          raised |-> [type |-> "AssertionError", what |-> "matrix is not a list"]]
    ELSE IF BadRows(arg.items) # {}
    THEN [obj |-> NoObject, raised |-> RowSumError(arg.items)]
    ELSE [obj |-> CohortBase("CohortMarkov", 1) @@
                  [transition_prob_matrix |-> arg.items,
                   nonZeroProbs |-> [i \in 1 .. Len(arg.items) |-> NonZeroProbs(arg.items[i])],
                   indicesNonZeroProbs |->
                       [i \in 1 .. Len(arg.items) |-> NonZeroIndices(arg.items[i], 0)],
                   n_states |-> Len(arg.items)],
          raised |-> NoError]

-----------------------------------------------------------------------------
(* _Markov: the frame MarkovJumpProcess and Gillespie share *)

\* an enumeration type with the given member values, in definition order
EnumType(name, values) == [type |-> "EnumType", name |-> name, values |-> values]

\* list(state_descriptions): the members
Members(e) == [i \in 1 .. Len(e.values) |-> [enum |-> e.name, value |-> e.values[i]]]

\* the numbering of the members is not looked at
MisnumberedMembers_Unchecked(e) == {}

\* the positions i whose member does not have value i (lines 146-149)
MisnumberedMembers(e) == {i \in Range(Len(e.values)) : At(e.values, i) # i}

\* _Markov.__init__(matrix, state_descriptions): the fields set, or the exception
MarkovInit(matrix, state_descriptions) ==
    IF Len(matrix) = 0
    THEN [raised |-> [type |-> "ValueError", what |-> "empty matrix"]]
    ELSE IF state_descriptions # None /\ state_descriptions[1].type # "EnumType"
    THEN [raised |-> [type |-> "AssertionError", what |-> "not an enumeration"]]
    ELSE IF state_descriptions # None /\ Len(state_descriptions[1].values) # Len(matrix)
    THEN [raised |-> [type |-> "AssertionError", what |-> "number of states"]]
    ELSE IF state_descriptions # None /\ MisnumberedMembers(state_descriptions[1]) # {}
    THEN [raised |-> [type |-> "AssertionError", what |-> "state index"]]
    ELSE [raised |-> NoError,
          fields |-> [n_states |-> Len(matrix),
                      ifStateDescriptionProvided |-> state_descriptions # None,
                      states |-> IF state_descriptions # None
                                 THEN Some(Members(state_descriptions[1]))
                                 ELSE None]]

-----------------------------------------------------------------------------
(* MarkovJumpProcess.__init__ *)

\* Empirical(probabilities): the distribution keeps the weights it is given
Empirical(probabilities) == [probabilities |-> probabilities]

MarkovJumpProcessInit(arg, state_descriptions) ==
    IF arg.type # "list"
    THEN [obj |-> NoObject,
          raised |-> [type |-> "AssertionError", what |-> "matrix is not a list"]]
    ELSE LET base == MarkovInit(arg.items, state_descriptions)
         IN IF base.raised # NoError
            THEN [obj |-> NoObject, raised |-> base.raised]
            ELSE IF BadRows(arg.items) # {}
            THEN [obj |-> NoObject, raised |-> RowSumError(arg.items)]
            ELSE [obj |-> [class |-> "MarkovJumpProcess"] @@
                          [base.fields EXCEPT !.n_states = Len(arg.items)] @@
                          [empiricalDists |->
                              [i \in 1 .. Len(arg.items) |-> Empirical(arg.items[i])]],
                  raised |-> NoError]

-----------------------------------------------------------------------------
(* out_rate and Gillespie.__init__ *)

RECURSIVE OutRateFrom(_, _, _)

\* the entry of the state itself is counted with the others
out_rate_DiagonalCounted(rates, idx) == OutRateFrom(rates, 0 - 1, 0)

\* out_rate(rates, idx), the entries being None or Some(rate)
OutRateFrom(rates, idx, i) ==
    IF i >= Len(rates) THEN 0
    ELSE (IF i # idx /\ At(rates, i) # None THEN At(rates, i)[1] ELSE 0)
             + OutRateFrom(rates, idx, i + 1)

out_rate(rates, idx) == OutRateFrom(rates, idx, 0)

HasNegative(row) == \E j \in 1 .. Len(row) : row[j] # None /\ row[j][1] < 0

\* the first negative rate of a row (line 246)
FirstNegative(row) ==
    row[Min({j \in 1 .. Len(row) : row[j] # None /\ row[j][1] < 0})][1]

\* the rate on the diagonal is kept
RatesToOthers_DiagonalKept(row, i) == row

\* lines 258-263: the rates to the other states, 0 for the state itself
RatesToOthers(row, i) == [j \in 1 .. Len(row) |-> IF i = j - 1 THEN Some(0) ELSE row[j]]

\* what the loop body of lines 242-272 does with row i: the two distributions, or
\* the exception.  Dividing the rates by rate_out fails on a rate that is None;
\* the weights are kept as the rates over their common denominator rate_out.
GillespieRow(row, i) ==
    IF HasNegative(row)
    THEN [raised |-> [type |-> "ValueError", what |-> "negative rate", row |-> i,
                      rate |-> FirstNegative(row)]]
    ELSE IF out_rate(row, i) > 0
    THEN IF \E j \in 1 .. Len(row) : RatesToOthers(row, i)[j] = None
         THEN [raised |-> [type |-> "TypeError", what |-> "None / rate_out", row |-> i]]
         ELSE [raised |-> NoError,
               expDist |-> Some([rate |-> out_rate(row, i)]),
               empiricalDist |->
                   Some(Empirical([weights |-> [j \in 1 .. Len(row) |->
                                                    RatesToOthers(row, i)[j][1]],
                                   over |-> out_rate(row, i)]))]
    ELSE [raised |-> NoError, expDist |-> None, empiricalDist |-> None]

GillespieInit(arg, state_descriptions) ==
    IF arg.type # "list"
    THEN [obj |-> NoObject,
          raised |-> [type |-> "AssertionError", what |-> "matrix is not a list"]]
    ELSE LET base == MarkovInit(arg.items, state_descriptions)
             rows == [i \in 1 .. Len(arg.items) |-> GillespieRow(arg.items[i], i - 1)]
             failing == {i \in 1 .. Len(rows) : rows[i].raised # NoError}
         IN IF base.raised # NoError
            THEN [obj |-> NoObject, raised |-> base.raised]
            ELSE IF failing # {}
            THEN [obj |-> NoObject, raised |-> rows[Min(failing)].raised]
            ELSE [obj |-> [class |-> "Gillespie"] @@ base.fields @@
                          [rateMatrix |-> arg.items,
                           expDists |-> [i \in 1 .. Len(rows) |-> rows[i].expDist],
                           empiricalDists |->
                               [i \in 1 .. Len(rows) |-> rows[i].empiricalDist]],
                  raised |-> NoError]

-----------------------------------------------------------------------------
(* _Markov._error_check and the samplers of the jump processes *)

\* every enumeration member passes for a declared state
InStates_AnyMember(o, current_state) == TRUE

\* line 166: current_state in self._states
InStates(o, current_state) ==
    \E i \in 1 .. Len(o.states[1]) : o.states[1][i] = current_state

\* _error_check(current_state_index, current_state): the index, or the exception.
\* A model built without state descriptions has no attribute _states.
error_check(o, current_state_index, current_state) ==
    IF current_state_index = None /\ current_state = None
    THEN [raised |-> [type |-> "ValueError", what |-> "neither index nor state"]]
    ELSE IF current_state_index # None
    THEN IF ~(0 <= current_state_index[1] /\ current_state_index[1] < o.n_states)
         THEN [raised |-> [type |-> "ValueError", what |-> "index out of range",
                           index |-> current_state_index[1]]]
         ELSE [raised |-> NoError, index |-> current_state_index[1]]
    ELSE IF o.states = None
    THEN [raised |-> [type |-> "AttributeError", what |-> "_states"]]
    ELSE IF ~InStates(o, current_state[1])
    THEN [raised |-> [type |-> "AssertionError", what |-> "state not in the enumeration"]]
    ELSE [raised |-> NoError, index |-> current_state[1].value]

\* lines 216-221 and 298: the state description of index i if there is one
Described(o, i) == IF o.ifStateDescriptionProvided THEN At(o.states[1], i) ELSE i

\* Empirical.sample(rng): an outcome of positive weight
EmpiricalSample(weights) == {j \in Range(Len(weights)) : At(weights, j) > 0}

\* Exponential.sample(rng): a positive time, in whole units
ExponentialSample(dist) == {1, 2}

-----------------------------------------------------------------------------
(* continuous_to_discrete and ContinuousTimeCohortMarkov.__init__ *)

\* np.exp(-x) for a whole x >= 0, to the nearest 0.00001
ExpNeg(x) ==
    IF x > 12 THEN 0
    ELSE <<100000, 36788, 13534, 4979, 1832, 674, 248, 91, 34, 12, 5, 2, 1>>[x + 1]

Max(S) == CHOOSE x \in S : \A y \in S : x >= y

\* the product of two probabilities, computed in two parts to stay within 32 bits
MulProb(a, b) == (a * (b \div 1000)) \div 100 + (a * (b % 1000)) \div One

\* lines 23-25
RatesOut(m) == [i \in 1 .. Len(m) |-> out_rate(m[i], i - 1)]

\* lines 32-37: the probability of moving from i to j within delta_t
TransitionProb(m, delta_t, i, j) ==
    IF i = j THEN ExpNeg(RatesOut(m)[i + 1] * delta_t)
    ELSE IF RatesOut(m)[i + 1] > 0
         THEN ((One - ExpNeg(RatesOut(m)[i + 1] * delta_t)) * At(At(m, i), j)[1])
                  \div RatesOut(m)[i + 1]
         ELSE 0

\* lines 45-47
ProbsOut(m, delta_t) == [i \in 1 .. Len(m) |-> One - ExpNeg(delta_t * RatesOut(m)[i])]

\* lines 57-69: the probability of leaving the state reached from i once more
RECURSIVE ProbOutAgain(_, _, _, _)
ProbOutAgain(m, delta_t, i, j) ==
    IF j >= Len(At(m, i)) THEN 0
    ELSE (IF i = j THEN 0
          ELSE MulProb(IF RatesOut(m)[i + 1] > 0
                       THEN (One * At(At(m, i), j)[1]) \div RatesOut(m)[i + 1]
                       ELSE 0,
                       At(ProbsOut(m, delta_t), j)))
         + ProbOutAgain(m, delta_t, i, j + 1)

\* the rows whose division of line 37 meets a rate that is None
NoneDivided(m) ==
    {i \in Range(Len(m)) :
        RatesOut(m)[i + 1] > 0 /\ \E j \in Range(Len(At(m, i))) : j # i /\ At(At(m, i), j) = None}

\* the rows with an entry beyond the last state, for which line 67 has no probs_out
BeyondLastState(m) == {i \in Range(Len(m)) : Len(At(m, i)) > Len(m)}

\* continuous_to_discrete(trans_rate_matrix, delta_t): the pair returned, or the
\* exception
continuous_to_discrete(trans_rate_matrix, delta_t) ==
    LET m == trans_rate_matrix
    IN IF NoneDivided(m) # {}
       THEN [raised |-> [type |-> "TypeError", what |-> "None / rate",
                         row |-> Min(NoneDivided(m))]]
       ELSE IF BeyondLastState(m) # {}
       THEN [raised |-> [type |-> "IndexError", what |-> "probs_out",
                         row |-> Min(BeyondLastState(m))]]
       ELSE IF Len(m) = 0
       THEN [raised |-> [type |-> "ValueError", what |-> "max of an empty list"]]
       ELSE [raised |-> NoError,
             value |-> PyTuple(<<
                 [i \in 1 .. Len(m) |->
                     [j \in 1 .. Len(m[i]) |-> TransitionProb(m, delta_t, i - 1, j - 1)]],
                 Max({MulProb(ProbsOut(m, delta_t)[i], ProbOutAgain(m, delta_t, i - 1, 0)) :
                         i \in 1 .. Len(m)}) >>)]

\* ContinuousTimeCohortMarkov.__init__(transition_rate_matrix, delta_t): the
\* wrapper and its delegate, or the exception
ContinuousTimeCohortMarkovInit(arg, delta_t) ==
    IF arg.type # "list"
    THEN [obj |-> NoObject,
          raised |-> [type |-> "AssertionError", what |-> "matrix is not a list"]]
    ELSE LET conv == continuous_to_discrete(arg.items, delta_t)
         IN IF conv.raised # NoError
            THEN [obj |-> NoObject, raised |-> conv.raised]
            ELSE LET made == CohortMarkovInit(conv.value)
                 IN IF made.raised # NoError
                    THEN [obj |-> NoObject, raised |-> made.raised]
                    ELSE [obj |-> CohortBase("ContinuousTimeCohortMarkov", 2) @@
                                  [markov |-> made.obj],
                          raised |-> NoError]

-----------------------------------------------------------------------------
(* The accessors of _CohortMarkov, on an object o whose lists live in h *)

get_state_size_over_time(o, state_index) == At(o.numInStatesOverTime, state_index)

get_transition_to_states_over_time(o) == o.numToStatesOverTime

RECURSIVE get_sum_size_multiple_states(_, _, _)
get_sum_size_multiple_states(o, h, state_indices) ==
    IF state_indices = <<>> THEN 0
    ELSE At(h[o.numInStates], Head(state_indices))
             + get_sum_size_multiple_states(o, h, Tail(state_indices))

RECURSIVE get_sum_size_multiple_states_over_time(_, _)
get_sum_size_multiple_states_over_time(o, state_indices) ==
    IF state_indices = <<>> THEN Zeros(o.n_time_steps + 1)
    ELSE LET rest == get_sum_size_multiple_states_over_time(o, Tail(state_indices))
         IN [t \in 1 .. (o.n_time_steps + 1) |->
                At(o.numInStatesOverTime, Head(state_indices))[t] + rest[t]]

-----------------------------------------------------------------------------
(* Multinomial(N, pvals).sample(rng): every split of N over the outcomes *)

RECURSIVE Splits(_, _)
Splits(N, m) ==
    IF m = 0 THEN (IF N = 0 THEN {<<>>} ELSE {})
    ELSE UNION {{<<c>> \o q : q \in Splits(N - c, m - 1)} : c \in 0 .. N}

MultinomialSample(N, pvals) ==
    {o \in Splits(N, Len(pvals)) : \A i \in 1 .. Len(pvals) : pvals[i] <= 0 => o[i] = 0}

\* binomial.sample(rng) on a source that has made the draws of log.  A source
\* seeded with 0 gives what it gave in an earlier run that drew the same up to
\* here; otherwise any outcome.
SourceSample(log, N, pvals) ==
    LET d == Len(log)
        same == {r \in 1 .. Len(runs) :
                    /\ Len(runs[r].draws) > d
                    /\ SubSeq(runs[r].draws, 1, d) = log
                    /\ runs[r].draws[d + 1].N = N
                    /\ runs[r].draws[d + 1].pvals = pvals}
    IN IF same = {} THEN MultinomialSample(N, pvals)
       ELSE {runs[r].draws[d + 1].outs : r \in same}

-----------------------------------------------------------------------------
(* CohortMarkov.simulate *)

\* the list self._numInStates refers to
NumInStates == heap[obj.numInStates]

\* a loop that runs one time step too many
LoopContinues_OneMore(kk, n) == kk <= n

\* for k in range(n_time_steps)
LoopContinues(kk, n) == kk < n

\* lines 402-403 and 429-430: append the size of each state to its series
RecordSizes(series, sizes) == [i \in 1 .. Len(series) |-> Append(series[i], sizes[i])]

\* lines 415-417: the draws counted as transitions into states
RECURSIVE CountTransitions(_, _, _, _, _)
CountTransitions(nts, st, o, idx, i) ==
    IF i >= Len(o) THEN nts
    ELSE CountTransitions(IF i # st THEN AddAt(nts, At(idx, i), At(o, i)) ELSE nts,
                          st, o, idx, i + 1)

\* lines 421-422: add each draw to its destination
RECURSIVE AddArrivals(_, _, _, _)
AddArrivals(sizes, o, idx, i) ==
    IF i >= Len(o) THEN sizes
    ELSE AddArrivals(AddAt(sizes, At(idx, i), At(o, i)), o, idx, i + 1)

\* the departing units are not taken out of their state
MoveUnits_NoDeparture(sizes, st, o, idx) == AddArrivals(sizes, o, idx, 0)

\* lines 419-422: the occupancy list after the draw of state st
MoveUnits(sizes, st, o, idx) == AddArrivals(AddAt(sizes, st, 0 - SeqSum(o)), o, idx, 0)

\* the draw of a state by true destination: where the units of outs went
RECURSIVE ByDestination(_, _, _, _)
ByDestination(acc, o, idx, i) ==
    IF i >= Len(o) THEN acc
    ELSE ByDestination(AddAt(acc, At(idx, i), At(o, i)), o, idx, i + 1)

\* the series of an earlier call are kept
FreshSeries_EarlierKept(series, n_states) ==
    IF series = <<>> THEN EmptyLists(n_states) ELSE series

\* lines 396-397: [[] for i in range(self._n_states)]
FreshSeries(series, n_states) == EmptyLists(n_states)

\* lines 391-397, for a list the caller holds at reference list
Enter(list, n) ==
    /\ obj' = [obj EXCEPT !.n_time_steps = n,
                          !.numInStates = list,
                          !.numInStatesOverTime = FreshSeries(@, obj.n_states),
                          !.numToStatesOverTime = FreshSeries(@, obj.n_states)]
    /\ call' = [op |-> "simulate", initial_condition |-> list, n_time_steps |-> n]
    /\ rngLog' = <<>>
    /\ k' = 0
    /\ pc' = "loop"
    /\ UNCHANGED <<raised, ret, s, num_to_states, binomial, outs, stepDraws, runs>>

\* simulate(initial_condition, n_time_steps) with a list of the values ic
SimulateCall(ic, n) ==
    /\ pc = "idle"
    /\ obj.class = "CohortMarkov"
    /\ heap' = Append(heap, ic)
    /\ ic0' = ic
    /\ Enter(Len(heap) + 1, n)

\* lines 399-406: enter time step k
StepBegin ==
    /\ pc = "loop"
    /\ LoopContinues(k, obj.n_time_steps)
    /\ obj' = [obj EXCEPT !.numInStatesOverTime = RecordSizes(@, NumInStates)]
    /\ num_to_states' = Zeros(obj.n_states)
    /\ stepDraws' = [i \in 1 .. obj.n_states |-> None]
    /\ s' = 0
    /\ pc' = "states"
    /\ UNCHANGED <<heap, raised, call, ret, rngLog, k, binomial, outs, ic0, runs>>

\* lines 408-422 for a state with positive occupancy
SampleState ==
    /\ pc = "states"
    /\ s < obj.n_states
    /\ At(NumInStates, s) > 0
    /\ LET N == At(NumInStates, s)
           pvals == At(obj.nonZeroProbs, s)
           idx == At(obj.indicesNonZeroProbs, s)
       IN \E o \in SourceSample(rngLog, N, pvals) :
            /\ binomial' = [N |-> N, pvals |-> pvals]
            /\ outs' = o
            /\ rngLog' = Append(rngLog, [N |-> N, pvals |-> pvals, outs |-> o])
            /\ num_to_states' = CountTransitions(num_to_states, s, o, idx, 0)
            /\ heap' = [heap EXCEPT ![obj.numInStates] = MoveUnits(@, s, o, idx)]
            /\ stepDraws' = [stepDraws EXCEPT ![s + 1] =
                   Some([N |-> N, to |-> ByDestination(Zeros(obj.n_states), o, idx, 0)])]
    /\ s' = s + 1
    /\ UNCHANGED <<obj, raised, call, ret, pc, k, ic0, runs>>

\* line 409 false: an empty state is passed over
SkipState ==
    /\ pc = "states"
    /\ s < obj.n_states
    /\ ~(At(NumInStates, s) > 0)
    /\ s' = s + 1
    /\ UNCHANGED <<obj, heap, raised, call, ret, rngLog, pc, k, num_to_states,
                   binomial, outs, ic0, stepDraws, runs>>

\* lines 424-426: close time step k
StepEnd ==
    /\ pc = "states"
    /\ s = obj.n_states
    /\ obj' = [obj EXCEPT !.numToStatesOverTime = RecordSizes(@, num_to_states)]
    /\ k' = k + 1
    /\ pc' = "loop"
    /\ UNCHANGED <<heap, raised, call, ret, rngLog, s, num_to_states, binomial,
                   outs, ic0, stepDraws, runs>>

\* lines 428-430: the loop is over
RecordFinal ==
    /\ pc = "loop"
    /\ ~LoopContinues(k, obj.n_time_steps)
    /\ obj' = [obj EXCEPT !.numInStatesOverTime = RecordSizes(@, NumInStates)]
    /\ pc' = "done"
    /\ runs' = Append(runs, [initial_condition |-> ic0,
                             n_time_steps |-> obj.n_time_steps,
                             draws |-> rngLog,
                             numInStatesOverTime |-> obj.numInStatesOverTime',
                             numToStatesOverTime |-> obj.numToStatesOverTime])
    /\ UNCHANGED <<heap, raised, call, ret, rngLog, k, s, num_to_states, binomial,
                   outs, ic0, stepDraws>>

-----------------------------------------------------------------------------
(* Inputs of the cohort simulation *)

ProbRows(n) == {r \in SeqsOver({0, Half, One}, n) : SeqSum(r) = One}

ValidProbMatrices == UNION {SeqsOver(ProbRows(n), n) : n \in 1 .. MaxStates}

InitialConditions(n) == {c \in SeqsOver(0 .. MaxPop, n) : SeqSum(c) <= MaxPop}

\* a CohortMarkov built from a valid probability matrix, simulate not yet called
Init ==
    /\ \E m \in ValidProbMatrices :
         /\ obj = CohortMarkovInit(PyList(m)).obj
         /\ call = [op |-> "CohortMarkov", matrix |-> m]
    /\ heap = <<<<>>>>
    /\ raised = NoError
    /\ ret = None
    /\ rngLog = <<>>
    /\ pc = "idle"
    /\ k = 0
    /\ s = 0
    /\ num_to_states = <<>>
    /\ binomial = None
    /\ outs = <<>>
    /\ ic0 = <<>>
    /\ stepDraws = <<>>
    /\ runs = <<>>

\* a caller invokes simulate on the model
Simulate ==
    /\ pc = "idle"
    /\ obj.class = "CohortMarkov"
    /\ \E n \in 0 .. MaxSteps : \E ic \in InitialConditions(obj.n_states) : SimulateCall(ic, n)

Next ==
    \/ Simulate
    \/ StepBegin
    \/ SampleState
    \/ SkipState
    \/ StepEnd
    \/ RecordFinal

Spec == Init /\ [][Next]_vars

\* once called, simulate runs on: its steps are not interleaved with anything
SimStep == StepBegin \/ SampleState \/ SkipState \/ StepEnd \/ RecordFinal

-----------------------------------------------------------------------------
(* Claims about CohortMarkov.simulate *)

States == Range(obj.n_states)

\* the occupancy series of state i, and its inbound-transition series
SizeSeries(i) == At(obj.numInStatesOverTime, i)

ToSeries(i) == At(obj.numToStatesOverTime, i)

RECURSIVE SumOver(_, _)
SumOver(f, n) == IF n = 0 THEN 0 ELSE f[n] + SumOver(f, n - 1)

\* the total population recorded at time index t
TotalAt(t) == SumOver([i \in 1 .. obj.n_states |-> At(SizeSeries(i - 1), t)], obj.n_states)

\* the time indices recorded so far
Recorded == Range(Len(SizeSeries(0)))

\* C1: at every recorded time index the occupancies of all states sum to the
\* sum of the initial condition.
C1_PopulationConserved ==
    pc # "idle" => \A t \in Recorded : TotalAt(t) = SeqSum(ic0)

\* a finished run of at least one step in which units moved
C1_Witness ==
    /\ pc = "done"
    /\ obj.n_time_steps >= 1
    /\ SeqSum(ic0) >= 2
    /\ \E i \in States : At(SizeSeries(i), obj.n_time_steps) # At(ic0, i)

Sampled(st) == At(stepDraws, st) # None

DrawOf(st) == At(stepDraws, st)[1]

\* C2: the multinomial split of a state splits the occupancy recorded for it
\* at the start of the time step.
C2_SplitsStartOfStepOccupancy ==
    pc = "states" =>
        \A st \in States : Sampled(st) => DrawOf(st).N = At(SizeSeries(st), k)

\* the units other states' draws of the closed time step sent to state j
Inbound(j) ==
    SumOver([i \in 1 .. obj.n_states |->
                IF i - 1 # j /\ Sampled(i - 1) THEN At(DrawOf(i - 1).to, j) ELSE 0],
            obj.n_states)

\* C3: the value appended to a state's inbound series is the number of units
\* the draws of the other states sent to it in that time step.
C3_InboundCountsArrivals ==
    (pc \in {"loop", "done"} /\ k >= 1) =>
        \A j \in States : At(ToSeries(j), k - 1) = Inbound(j)

\* C4: simulate takes exactly n_time_steps steps and ends; then every occupancy
\* series has n_time_steps + 1 elements, the first the initial condition and the
\* last the final occupancy, and every inbound series has n_time_steps elements;
\* element k of an occupancy series is the occupancy step k starts from.
C4_Shape ==
    /\ pc \in {"loop", "states", "done"} => k <= obj.n_time_steps
    /\ pc = "states" => k < obj.n_time_steps /\ s <= obj.n_states
    /\ pc = "done" =>
          /\ k = obj.n_time_steps
          /\ \A i \in States :
                /\ Len(SizeSeries(i)) = obj.n_time_steps + 1
                /\ At(SizeSeries(i), 0) = At(ic0, i)
                /\ At(SizeSeries(i), obj.n_time_steps) = At(NumInStates, i)
                /\ Len(ToSeries(i)) = obj.n_time_steps

\* how far a run has got: every step of simulate raises it, and C4_Shape bounds it
Progress ==
    (obj.n_states + 2) * k
        + (IF pc = "states" THEN s + 1 ELSE IF pc = "done" THEN 1 ELSE 0)

C4_RunsToCompletion ==
    /\ [](C4_Shape)
    /\ [](pc \in {"loop", "states"} => ENABLED SimStep)
    /\ [][SimStep => Progress' > Progress]_vars
    /\ [][StepBegin => \A i \in States :
                          /\ Len(SizeSeries(i))' = k + 1
                          /\ At(SizeSeries(i), k)' = At(NumInStates, i)]_vars

\* a finished run of at least one step
C4_Witness ==
    /\ pc = "done"
    /\ obj.n_time_steps >= 1
    /\ SeqSum(ic0) >= 1
    /\ Len(ToSeries(0)) = obj.n_time_steps

-----------------------------------------------------------------------------
(* Construction: a caller builds one model from a matrix, well-formed or not *)

Iota(n) == [i \in 1 .. n |-> i - 1]

\* rows of one or two entries, so that with up to MaxStates rows a matrix can be
\* square or not; the entries reach both ends of the tolerance and one step past
ProbEntries == {0 - 1, 0, 1, LowTol, HighTol}

ProbRowInputs == SeqsOver(ProbEntries, 1) \cup SeqsOver(ProbEntries, 2)

ProbMatrixInputs == UNION {SeqsOver(ProbRowInputs, n) : n \in 0 .. MaxStates}

RateEntries == {None, Some(0 - 1), Some(0), Some(1)}

RateRowInputs == SeqsOver(RateEntries, 1) \cup SeqsOver(RateEntries, 2)

RateMatrixInputs == UNION {SeqsOver(RateRowInputs, n) : n \in 0 .. MaxStates}

\* the state descriptions tried with a matrix of n rows: none, something that is
\* no enumeration, and enumerations of n or n + 1 members numbered from 0, from
\* 1, or backwards
LabelInputs(n) ==
    {None, Some(PyList(Iota(n)))}
        \cup {Some(EnumType("S", v)) :
                v \in {Iota(n), Iota(n + 1), [i \in 1 .. n |-> i], [i \in 1 .. n |-> n - i]}}

\* the rows a valid rate matrix of n states can have at index i: None on the
\* diagonal, a rate of 0, 1 or 2 elsewhere
ValidRateRows(n, i) ==
    {r \in SeqsOver({None, Some(0), Some(1), Some(2)}, n) :
        \A j \in 1 .. n : (r[j] = None) <=> (i = j - 1)}

\* the first i rows of the valid rate matrices of n states
RECURSIVE ValidRateRowsUpTo(_, _)
ValidRateRowsUpTo(n, i) ==
    IF i = 0 THEN {<<>>}
    ELSE {Append(q, r) : q \in ValidRateRowsUpTo(n, i - 1), r \in ValidRateRows(n, i - 1)}

ValidRateMatrices == UNION {ValidRateRowsUpTo(n, n) : n \in 1 .. MaxStates}

DeltaTs == {1, 2}

\* a constructor call leaves the object when it returned, else the exception
NewMarkovJumpProcess ==
    /\ call.op = "none"
    /\ \E m \in ProbMatrixInputs : \E d \in LabelInputs(Len(m)) :
          LET made == MarkovJumpProcessInit(PyList(m), d)
          IN /\ call' = [op |-> "MarkovJumpProcess", args |-> <<m, d>>]
             /\ obj' = made.obj
             /\ raised' = made.raised
    /\ UNCHANGED <<heap, ret, rngLog, simVars>>

NewGillespie ==
    /\ call.op = "none"
    /\ \E m \in RateMatrixInputs : \E d \in LabelInputs(Len(m)) :
          LET made == GillespieInit(PyList(m), d)
          IN /\ call' = [op |-> "Gillespie", args |-> <<m, d>>]
             /\ obj' = made.obj
             /\ raised' = made.raised
    /\ UNCHANGED <<heap, ret, rngLog, simVars>>

NewCohortMarkov ==
    /\ call.op = "none"
    /\ \E m \in ProbMatrixInputs :
          LET made == CohortMarkovInit(PyList(m))
          IN /\ call' = [op |-> "CohortMarkov", args |-> <<m>>]
             /\ obj' = made.obj
             /\ raised' = made.raised
    /\ UNCHANGED <<heap, ret, rngLog, simVars>>

NewContinuousTimeCohortMarkov ==
    /\ call.op = "none"
    /\ \E m \in ValidRateMatrices : \E dt \in DeltaTs :
          LET made == ContinuousTimeCohortMarkovInit(PyList(m), dt)
          IN /\ call' = [op |-> "ContinuousTimeCohortMarkov", args |-> <<m, dt>>]
             /\ obj' = made.obj
             /\ raised' = made.raised
    /\ UNCHANGED <<heap, ret, rngLog, simVars>>

InitConstruct ==
    /\ obj = NoObject
    /\ call = [op |-> "none"]
    /\ heap = <<<<>>>>
    /\ raised = NoError
    /\ ret = None
    /\ rngLog = <<>>
    /\ pc = "idle"
    /\ k = 0
    /\ s = 0
    /\ num_to_states = <<>>
    /\ binomial = None
    /\ outs = <<>>
    /\ ic0 = <<>>
    /\ stepDraws = <<>>
    /\ runs = <<>>

NextConstruct ==
    \/ NewCohortMarkov
    \/ NewMarkovJumpProcess
    \/ NewGillespie
    \/ NewContinuousTimeCohortMarkov

SpecConstruct == InitConstruct /\ [][NextConstruct]_vars

\* the matrix the constructor was given
MatrixArg == call.args[1]

Returned == call.op # "none" /\ raised = NoError

Failed == call.op # "none" /\ raised # NoError /\ obj = NoObject

\* C5: a ContinuousTimeCohortMarkov built from a valid rate matrix is an object
\* whose delegate is a CohortMarkov on the probability matrix that
\* continuous_to_discrete gives for the rate matrix and delta_t.
C5_WrapperBuiltOnConvertedMatrix ==
    call.op = "ContinuousTimeCohortMarkov" =>
        /\ Returned
        /\ obj.class = "ContinuousTimeCohortMarkov"
        /\ obj.markov.class = "CohortMarkov"
        /\ obj.markov.transition_prob_matrix
               = continuous_to_discrete(call.args[1], call.args[2]).value.items[1]

\* C6: a caller that has built a ContinuousTimeCohortMarkov holds an object
\* whose accessors return the series and sums of its delegate, the CohortMarkov
\* that simulate runs.
C6_AccessorsReadDelegate ==
    call.op = "ContinuousTimeCohortMarkov" =>
        /\ obj.class = "ContinuousTimeCohortMarkov"
        /\ get_transition_to_states_over_time(obj)
               = get_transition_to_states_over_time(obj.markov)
        /\ \A i \in Range(obj.markov.n_states) :
              /\ get_state_size_over_time(obj, i) = get_state_size_over_time(obj.markov, i)
              /\ get_sum_size_multiple_states(obj, heap, <<i>>)
                     = get_sum_size_multiple_states(obj.markov, heap, <<i>>)
              /\ get_sum_size_multiple_states_over_time(obj, <<i>>)
                     = get_sum_size_multiple_states_over_time(obj.markov, <<i>>)

\* C7: no model is built from a matrix of zero rows: the constructor raises.
C7_EmptyMatrixRejected ==
    (call.op \in {"MarkovJumpProcess", "Gillespie", "CohortMarkov"} /\ Len(MatrixArg) = 0)
        => Failed

\* the state descriptions a constructor call was given are none or acceptable
LabelsAccepted ==
    call.op = "MarkovJumpProcess" =>
        LET d == call.args[2]
        IN d = None \/ (/\ d[1].type = "EnumType"
                        /\ Len(d[1].values) = Len(MatrixArg)
                        /\ \A i \in 1 .. Len(d[1].values) : d[1].values[i] = i - 1)

\* the rows whose sum lies outside [0.99999, 1.00001]
OutsideTolerance ==
    {i \in Range(Len(MatrixArg)) :
        ~(LowTol <= SeqSum(At(MatrixArg, i)) /\ SeqSum(At(MatrixArg, i)) <= HighTol)}

NamesLowestOffendingRow ==
    /\ Failed
    /\ raised.type = "ValueError"
    /\ raised.what = "row sum"
    /\ raised.row = Min(OutsideTolerance)
    /\ raised.sum = SeqSum(At(MatrixArg, raised.row))

\* C8 as claimed: MarkovJumpProcess and CohortMarkov are built only from matrices
\* whose rows all sum to a value in [0.99999, 1.00001], and any other matrix is
\* refused with an error naming the lowest offending row and its sum.
C8_RowSumChecked_AsClaimed ==
    call.op \in {"MarkovJumpProcess", "CohortMarkov"} =>
        /\ Returned => OutsideTolerance = {}
        /\ OutsideTolerance # {} => NamesLowestOffendingRow
        /\ (OutsideTolerance = {} /\ LabelsAccepted /\ Len(MatrixArg) > 0) => Returned

\* C8: MarkovJumpProcess and CohortMarkov are built only from matrices whose rows
\* all sum to a value in [0.99999, 1.00001]; any other matrix is refused and no
\* object is made, and the error names the lowest offending row and its sum
\* unless the state descriptions given to MarkovJumpProcess are refused first.
C8_RowSumChecked ==
    call.op \in {"MarkovJumpProcess", "CohortMarkov"} =>
        /\ Returned => OutsideTolerance = {}
        /\ OutsideTolerance # {} => Failed
        /\ (OutsideTolerance # {} /\ LabelsAccepted) => NamesLowestOffendingRow
        /\ (OutsideTolerance = {} /\ LabelsAccepted /\ Len(MatrixArg) > 0) => Returned

\* a matrix whose first row sums to an end of the interval and whose second row is
\* the lowest one outside it
C8_Witness ==
    /\ call.op \in {"MarkovJumpProcess", "CohortMarkov"}
    /\ Len(MatrixArg) = 2
    /\ SeqSum(At(MatrixArg, 0)) \in {LowTol, HighTol}
    /\ OutsideTolerance = {1}
    /\ NamesLowestOffendingRow

\* a matrix of n rows is well formed when every row has n entries, none negative
WellFormed(m) ==
    \A i \in 1 .. Len(m) :
        /\ Len(m[i]) = Len(m)
        /\ \A j \in 1 .. Len(m[i]) :
              IF call.op = "Gillespie" THEN m[i][j] = None \/ m[i][j][1] >= 0
              ELSE m[i][j] >= 0

\* C9: a matrix of the wrong shape or with a negative entry is refused by the
\* constructor.
C9_MalformedMatrixRejected ==
    (call.op \in {"MarkovJumpProcess", "Gillespie", "CohortMarkov"} /\ ~WellFormed(MatrixArg))
        => Failed

-----------------------------------------------------------------------------
(* Queries: get_next_state on a MarkovJumpProcess or a Gillespie model *)

\* the members a caller can pass as current_state: those of the model's
\* enumeration and one of another enumeration
MemberInputs(n) == {[enum |-> "S", value |-> v] : v \in Range(n)} \cup {[enum |-> "T", value |-> 0]}

IndexInputs(n) == {None} \cup {Some(i) : i \in (0 - 1) .. n}

StateInputs(n) == {None} \cup {Some(mem) : mem \in MemberInputs(n)}

\* the rate matrix [[None, 0], [5, None]], whose state 0 is absorbing
AbsorbingExample == << <<None, Some(0)>>, <<Some(5), None>> >>

\* rate matrices of two and of three states whose diagonal is None or a number
DiagonalRateMatrices ==
    UNION {{ << <<d, Some(1)>>, <<Some(0), d>> >>,
             << <<d, Some(1), Some(2)>>, <<Some(0), d, Some(0)>>, <<Some(2), Some(2), d>> >> } :
           d \in {None, Some(0), Some(3)}}

\* the rate matrices of the models queried: the valid ones whose rates are 0 or 1,
\* the example, and those with unequal rates and a diagonal of any kind
QueryRateMatrices ==
    {m \in ValidRateMatrices : \A i \in 1 .. Len(m) : \A j \in 1 .. Len(m) : m[i][j] # Some(2)}
        \cup {AbsorbingExample} \cup DiagonalRateMatrices

\* a jump model built from a valid matrix, with or without state descriptions
InitQuery ==
    /\ \E labelled \in BOOLEAN :
         \/ \E m \in ValidProbMatrices :
              obj = MarkovJumpProcessInit(
                        PyList(m),
                        IF labelled THEN Some(EnumType("S", Iota(Len(m)))) ELSE None).obj
         \/ \E m \in QueryRateMatrices :
              obj = GillespieInit(
                        PyList(m),
                        IF labelled THEN Some(EnumType("S", Iota(Len(m)))) ELSE None).obj
    /\ call = [op |-> "none"]
    /\ heap = <<<<>>>>
    /\ raised = NoError
    /\ ret = None
    /\ rngLog = <<>>
    /\ pc = "idle"
    /\ k = 0
    /\ s = 0
    /\ num_to_states = <<>>
    /\ binomial = None
    /\ outs = <<>>
    /\ ic0 = <<>>
    /\ stepDraws = <<>>
    /\ runs = <<>>

\* a draw from the distribution the model keeps for state i
Draw(dist, i) == [dist |-> dist, state |-> i]

\* the destination is drawn before the holding time
GillespieDraws_DestinationFirst(i) == <<Draw("empirical", i), Draw("exponential", i)>>

\* lines 294 and 296: the draws for a state that is not absorbing, in the order made
GillespieDraws(i) == <<Draw("exponential", i), Draw("empirical", i)>>

\* an absorbing state hands the process to the first state
AbsorbingOutcome_FirstState(current_state_index) == [dt |-> None, i |-> 0]

\* lines 288-291: an absorbing state has no holding time and is its own next state
AbsorbingOutcome(current_state_index) == [dt |-> None, i |-> current_state_index]

\* a call that raised returns nothing and has drawn nothing
Raises(op, idx, st, exc) ==
    /\ call' = [op |-> op, current_state_index |-> idx, current_state |-> st]
    /\ raised' = exc
    /\ ret' = None
    /\ rngLog' = <<>>

\* MarkovJumpProcess.get_next_state(current_state_index, current_state, rng)
MarkovJumpProcess_get_next_state ==
    /\ obj.class = "MarkovJumpProcess"
    /\ \E idx \in IndexInputs(obj.n_states) : \E st \in StateInputs(obj.n_states) :
          LET chk == error_check(obj, idx, st)
          IN IF chk.raised # NoError
             THEN Raises("get_next_state", idx, st, chk.raised)
             ELSE \E next_state_index \in
                      EmpiricalSample(At(obj.empiricalDists, chk.index).probabilities) :
                    /\ call' = [op |-> "get_next_state", current_state_index |-> idx,
                                current_state |-> st]
                    /\ raised' = NoError
                    /\ rngLog' = <<Draw("empirical", chk.index)>>
                    /\ ret' = Some(Described(obj, next_state_index))
    /\ UNCHANGED <<obj, heap, simVars>>

\* Gillespie.get_next_state(current_state_index, current_state, rng)
Gillespie_get_next_state ==
    /\ obj.class = "Gillespie"
    /\ \E idx \in IndexInputs(obj.n_states) : \E st \in StateInputs(obj.n_states) :
          LET chk == error_check(obj, idx, st)
          IN IF chk.raised # NoError
             THEN Raises("get_next_state", idx, st, chk.raised)
             ELSE /\ call' = [op |-> "get_next_state", current_state_index |-> idx,
                              current_state |-> st]
                  /\ raised' = NoError
                  /\ IF At(obj.expDists, chk.index) = None
                     THEN /\ rngLog' = <<>>
                          /\ ret' = Some(<<AbsorbingOutcome(chk.index).dt,
                                           Described(obj, AbsorbingOutcome(chk.index).i)>>)
                     ELSE \E dt \in ExponentialSample(At(obj.expDists, chk.index)[1]) :
                          \E i \in EmpiricalSample(
                                     At(obj.empiricalDists, chk.index)[1].probabilities.weights) :
                            /\ rngLog' = GillespieDraws(chk.index)
                            /\ ret' = Some(<<Some(dt), Described(obj, i)>>)
    /\ UNCHANGED <<obj, heap, simVars>>

NextQuery ==
    \/ MarkovJumpProcess_get_next_state
    \/ Gillespie_get_next_state

SpecQuery == InitQuery /\ [][NextQuery]_vars

\* C10: a get_next_state call that supplies neither current_state_index nor
\* current_state, or both of them, fails with an error.
C10_ExactlyOneOfIndexAndState ==
    (/\ call.op = "get_next_state"
     /\ (call.current_state_index = None) = (call.current_state = None))
        => raised # NoError

-----------------------------------------------------------------------------
(* Claims about index resolution and state descriptions *)

Called == call.op = "get_next_state"

\* the index and the state description the last call supplied
GivenIndex == call.current_state_index

GivenState == call.current_state

\* the state whose distributions the call went to: the state of its draws, or
\* for an absorbing state of a Gillespie model the state it returned
UsedIndex ==
    IF rngLog # <<>> THEN rngLog[1].state
    ELSE IF obj.ifStateDescriptionProvided THEN ret[1][2].value ELSE ret[1][2]

\* the members of the enumeration the model was built with
DeclaredMembers ==
    IF obj.ifStateDescriptionProvided THEN {At(obj.states[1], i) : i \in Range(obj.n_states)}
    ELSE {}

C11_Resolved ==
    Called =>
        /\ GivenIndex # None =>
              IF 0 <= GivenIndex[1] /\ GivenIndex[1] < obj.n_states
              THEN raised = NoError /\ UsedIndex = GivenIndex[1]
              ELSE raised # NoError
        /\ (GivenIndex = None /\ GivenState # None) =>
              IF GivenState[1] \in DeclaredMembers
              THEN raised = NoError /\ UsedIndex = GivenState[1].value
              ELSE raised # NoError
        /\ raised # NoError => ret = None /\ rngLog = <<>>

\* C11: a get_next_state call given an index i with 0 <= i < n works on state i;
\* given only a state description that is a member of the model's enumeration it
\* works on the state of that member's value; given an index outside [0, n), or
\* a description that is no member of the enumeration (any description when the
\* model was built without one), it raises, returns nothing and draws nothing;
\* and no call changes the model.
C11_IndexResolution == [](C11_Resolved) /\ [][obj' = obj]_vars

\* a call given the description of state 1 alone, which was served
C11_Witness ==
    /\ Called
    /\ GivenIndex = None
    /\ GivenState # None
    /\ GivenState[1] \in DeclaredMembers
    /\ GivenState[1].value = 1
    /\ raised = NoError
    /\ ret # None

\* the state descriptions a jump-process constructor was given
LabelsArg == call.args[2]

\* an enumeration type of n members whose k-th member, counted from 0, has value k
WellNumbered(d, n) ==
    /\ d.type = "EnumType"
    /\ Len(d.values) = n
    /\ \A kk \in Range(n) : At(d.values, kk) = kk

\* C12: a MarkovJumpProcess or Gillespie constructor given state descriptions
\* returns only if they are an enumeration type with as many members as the matrix
\* has rows, the k-th member having value k, and raises otherwise; the model built
\* keeps the members in order, states[i].value = i, so that the state returned
\* for a sampled index i is the member of value i.
C12_LabelsChecked ==
    (call.op \in {"MarkovJumpProcess", "Gillespie"} /\ LabelsArg # None) =>
        /\ Returned => WellNumbered(LabelsArg[1], Len(MatrixArg))
        /\ ~WellNumbered(LabelsArg[1], Len(MatrixArg)) => Failed
        /\ Returned =>
              /\ obj.ifStateDescriptionProvided
              /\ Len(obj.states[1]) = obj.n_states
              /\ \A i \in Range(obj.n_states) :
                    /\ At(obj.states[1], i).value = i
                    /\ At(obj.states[1], i).enum = LabelsArg[1].name
                    /\ Described(obj, i) = At(obj.states[1], i)

\* a model of two states built with state descriptions
C12_Witness ==
    /\ call.op \in {"MarkovJumpProcess", "Gillespie"}
    /\ LabelsArg # None
    /\ Returned
    /\ obj.n_states = 2
    /\ Described(obj, 1).value = 1

-----------------------------------------------------------------------------
(* Claims about Gillespie.get_next_state *)

\* a Gillespie call that returned
Served == Called /\ obj.class = "Gillespie" /\ raised = NoError

\* the state a served call started from
InputIndex == IF GivenIndex # None THEN GivenIndex[1] ELSE GivenState[1].value

\* the holding time and the state a served call returned
ReturnedTime == ret[1][1]

ReturnedState == ret[1][2]

ReturnedIndex == IF obj.ifStateDescriptionProvided THEN ReturnedState.value ELSE ReturnedState

\* what a caller holds for state i: its description if the model has them
StateOf(i) == IF obj.ifStateDescriptionProvided THEN At(obj.states[1], i) ELSE i

\* rate[i][j] of the matrix the model was built from, 0 where it holds None
Rate(i, j) == IF At(At(obj.rateMatrix, i), j) = None THEN 0 ELSE At(At(obj.rateMatrix, i), j)[1]

\* the total outgoing rate of state i
Mu(i) == SumOver([j \in 1 .. obj.n_states |-> IF j - 1 = i THEN 0 ELSE Rate(i, j - 1)],
                 obj.n_states)

C13_AbsorbingCall ==
    (Served /\ Mu(InputIndex) = 0) =>
        /\ ret = Some(<<None, StateOf(InputIndex)>>)
        /\ rngLog = <<>>

\* the next call is given the state the last call returned, and nothing else
FedBack ==
    /\ call'.op = "get_next_state"
    /\ IF obj.ifStateDescriptionProvided
       THEN call'.current_state = Some(ReturnedState) /\ call'.current_state_index = None
       ELSE call'.current_state_index = Some(ReturnedState) /\ call'.current_state = None

C13_Stays ==
    (Served /\ Mu(ReturnedIndex) = 0 /\ FedBack) =>
        /\ raised' = NoError
        /\ ret' = Some(<<None, ReturnedState>>)
        /\ rngLog' = <<>>

C13_Example ==
    (Served /\ obj.rateMatrix = AbsorbingExample) =>
        /\ ReturnedIndex = 0
        /\ InputIndex = 1 => ReturnedTime # None /\ Len(rngLog) = 2
        /\ InputIndex = 0 => ReturnedTime = None /\ rngLog = <<>>

\* C13: in a Gillespie model a state whose off-diagonal rates that are not None sum
\* to 0 is absorbing: a call from it returns no holding time and the state itself
\* (its description if the model has them) and draws nothing; when the state a call
\* returned is absorbing and is fed to the next call, that call returns it again; and
\* with the matrix [[None, 0], [5, None]] a call from state 1 returns state 0 with a
\* holding time and a call from state 0 returns state 0 without one.
C13_AbsorbingStates == [](C13_AbsorbingCall) /\ [](C13_Example) /\ [][C13_Stays]_vars

\* the example model asked for the state after its absorbing state 0
C13_Witness ==
    /\ Served
    /\ obj.rateMatrix = AbsorbingExample
    /\ InputIndex = 0
    /\ ret = Some(<<None, StateOf(0)>>)

\* C14: a Gillespie call from a state that is not absorbing makes exactly two draws,
\* first one from the exponential distribution of that state (the holding time),
\* then one from its empirical distribution (the destination); a call from an
\* absorbing state makes none.
C14_DrawOrder ==
    Served =>
        IF Mu(InputIndex) > 0
        THEN /\ rngLog = << [dist |-> "exponential", state |-> InputIndex],
                            [dist |-> "empirical", state |-> InputIndex] >>
             /\ ReturnedTime # None
        ELSE rngLog = <<>>

\* a call from state 1, which is not absorbing, that drew twice
C14_Witness ==
    /\ Served
    /\ InputIndex = 1
    /\ Mu(1) > 0
    /\ Len(rngLog) = 2

\* the destination distribution kept for state i: weight j is weights[j] / over
DestinationDist(i) == At(obj.empiricalDists, i)[1].probabilities

\* C15: in a Gillespie model the destination distribution of a state i with total
\* outgoing rate mu_i > 0 gives weight 0 to i, whatever the diagonal entry of the
\* matrix, and weight rate[i][j] / mu_i to every other state j, the weights summing
\* to 1; a call from i returns neither i nor a state j with rate[i][j] = 0.
C15_DestinationWeights ==
    obj.class = "Gillespie" =>
        /\ \A i \in States : Mu(i) > 0 =>
              /\ At(obj.empiricalDists, i) # None
              /\ DestinationDist(i).over = Mu(i)
              /\ Len(DestinationDist(i).weights) = obj.n_states
              /\ \A j \in States :
                    At(DestinationDist(i).weights, j) = IF j = i THEN 0 ELSE Rate(i, j)
              /\ SeqSum(DestinationDist(i).weights) = DestinationDist(i).over
        /\ (Served /\ Mu(InputIndex) > 0) =>
              /\ ReturnedIndex # InputIndex
              /\ Rate(InputIndex, ReturnedIndex) > 0

\* a model of three states with numbers on the diagonal, asked for the state after
\* state 0, whose two rates differ
C15_Witness ==
    /\ Served
    /\ obj.n_states = 3
    /\ At(At(obj.rateMatrix, 0), 0) = Some(3)
    /\ InputIndex = 0
    /\ Rate(0, 1) # Rate(0, 2)
    /\ ReturnedIndex = 2

-----------------------------------------------------------------------------
(* discrete_to_continuous.  A float is finite, in units of 0.00001, or one of
   the values inf and nan that numpy arithmetic gives instead of raising. *)

Fin(v) == [kind |-> "finite", v |-> v]

Inf == [kind |-> "inf", v |-> 0]

NaN == [kind |-> "nan", v |-> 0]

Quarter == Half \div 2

\* -np.log(p) for p a multiple of 0.25: inf at 0, else to the nearest 0.00001
NegLog(p) ==
    IF p = 0 THEN Inf
    ELSE Fin(<<138629, 69315, 28768, 0>>[p \div Quarter])

\* x * p for a float x >= 0 and a probability p: inf * 0 is nan
TimesProb(x, p) ==
    IF x.kind = "nan" THEN NaN
    ELSE IF x.kind = "inf" THEN (IF p = 0 THEN NaN ELSE Inf)
    ELSE Fin(MulProb(x.v, p))

\* x / (q * delta_t) for a float x >= 0 and a probability q: numpy gives nan for
\* 0 / 0 and inf for any other division by 0
Over(x, q, delta_t) ==
    IF x.kind = "nan" THEN NaN
    ELSE IF q * delta_t = 0 THEN (IF x.kind = "finite" /\ x.v = 0 THEN NaN ELSE Inf)
    ELSE IF x.kind = "inf" THEN Inf
    ELSE Fin((x.v * 1000) \div ((q \div 100) * delta_t))

\* line 119
LogRate(p_ii, p_ij, delta_t) == Over(TimesProb(NegLog(p_ii), p_ij), One - p_ii, delta_t)

\* the rate of a state that never leaves is computed like any other
OffDiagonalRate_AlwaysComputed(p_ii, p_ij, delta_t) == LogRate(p_ii, p_ij, delta_t)

\* lines 116-119: the rate from a state with self-transition probability p_ii to
\* a state it moves to with probability p_ij
OffDiagonalRate(p_ii, p_ij, delta_t) ==
    IF p_ii = One THEN Fin(0) ELSE LogRate(p_ii, p_ij, delta_t)

\* discrete_to_continuous(trans_prob_matrix, delta_t) for a list of rows
discrete_to_continuous(trans_prob_matrix, delta_t) ==
    IF trans_prob_matrix.type # "list"
    THEN [raised |-> [type |-> "AssertionError", what |-> "matrix is not a list"]]
    ELSE LET m == trans_prob_matrix.items
         IN [raised |-> NoError,
             value |-> PyList(
                 [i \in 1 .. Len(m) |->
                     [j \in 1 .. Len(m[i]) |->
                         IF i = j THEN None
                         ELSE Some(OffDiagonalRate(m[i][i], m[i][j], delta_t))]])]

-----------------------------------------------------------------------------
(* Conversions: a caller converts one matrix *)

\* probability rows in steps of 0.25
QuarterRows(n) ==
    {r \in SeqsOver({0, Quarter, Half, Half + Quarter, One}, n) : SeqSum(r) = One}

QuarterMatrices == UNION {SeqsOver(QuarterRows(n), n) : n \in 1 .. MaxStates}

\* matrix m with d in place of its diagonal
WithDiagonal(m, d) ==
    [i \in 1 .. Len(m) |-> [j \in 1 .. Len(m[i]) |-> IF i = j THEN d ELSE m[i][j]]]

\* rate matrices with None off the diagonal, in a row that has no other rate and
\* in a row that has one
NoneOffDiagonal ==
    { << <<None, None>>, <<Some(1), None>> >>,
      << <<None, None, Some(1)>>, <<Some(0), None, Some(0)>>, <<Some(1), Some(1), None>> >> }

ConvertRateMatrices ==
    {WithDiagonal(m, d) : m \in ValidRateMatrices, d \in {None, Some(0), Some(3)}}
        \cup DiagonalRateMatrices \cup NoneOffDiagonal

\* continuous_to_discrete(trans_rate_matrix, delta_t) is called
Call_continuous_to_discrete ==
    /\ call.op = "none"
    /\ \E m \in ConvertRateMatrices : \E delta_t \in 0 .. 2 :
          LET made == continuous_to_discrete(m, delta_t)
          IN /\ call' = [op |-> "continuous_to_discrete", args |-> <<m, delta_t>>]
             /\ raised' = made.raised
             /\ ret' = IF made.raised = NoError THEN Some(made.value) ELSE None
    /\ UNCHANGED <<obj, heap, rngLog, simVars>>

\* discrete_to_continuous(trans_prob_matrix, delta_t) is called
Call_discrete_to_continuous ==
    /\ call.op = "none"
    /\ \E m \in QuarterMatrices : \E delta_t \in 1 .. 2 :
          LET made == discrete_to_continuous(PyList(m), delta_t)
          IN /\ call' = [op |-> "discrete_to_continuous", args |-> <<m, delta_t>>]
             /\ raised' = made.raised
             /\ ret' = IF made.raised = NoError THEN Some(made.value) ELSE None
    /\ UNCHANGED <<obj, heap, rngLog, simVars>>

NextConvert ==
    \/ Call_continuous_to_discrete
    \/ Call_discrete_to_continuous

SpecConvert == InitConstruct /\ [][NextConvert]_vars

-----------------------------------------------------------------------------
(* Claims about the conversions *)

\* the matrix and the cycle length the conversion was given
Given == call.args[1]

GivenDeltaT == call.args[2]

Rows == Range(Len(Given))

\* rate[i][j] of the matrix given, 0 where it holds None
GivenRate(i, j) == IF At(At(Given, i), j) = None THEN 0 ELSE At(At(Given, i), j)[1]

\* the total outgoing rate of row i: the diagonal entry and None are left out
GivenMu(i) ==
    SumOver([j \in 1 .. Len(At(Given, i)) |-> IF j - 1 = i THEN 0 ELSE GivenRate(i, j - 1)],
            Len(At(Given, i)))

\* every entry off the diagonal is a number, and none is negative
OffDiagonalRatesGiven ==
    \A i \in Rows : \A j \in Range(Len(At(Given, i))) :
        j # i => (At(At(Given, i), j) # None /\ At(At(Given, i), j)[1] >= 0)

\* the probability matrix continuous_to_discrete returned
ProbMatrix == ret[1].items[1]

P(i, j) == At(At(ProbMatrix, i), j)

\* p is x / d cut to a whole number of units of 0.00001
CutTo(p, x, d) == p * d <= x /\ x < (p + 1) * d

\* C16: for a rate matrix whose off-diagonal entries are rates >= 0 and a
\* delta_t >= 0, continuous_to_discrete returns a matrix of the same shape in
\* which a row with mu_i = 0 is the unit row and a row with mu_i > 0 has
\* p_ii = exp(-mu_i * delta_t) and p_ij = (1 - p_ii) * rate[i][j] / mu_i, mu_i
\* leaving out the diagonal entry; every entry is >= 0 and every row sums to 1, to
\* within the unit each off-diagonal entry is cut to.
C16_RowsOfConvertedMatrix ==
    (call.op = "continuous_to_discrete" /\ OffDiagonalRatesGiven /\ GivenDeltaT >= 0) =>
        /\ raised = NoError
        /\ ret # None
        /\ Len(ProbMatrix) = Len(Given)
        /\ \A i \in Rows :
              /\ Len(At(ProbMatrix, i)) = Len(At(Given, i))
              /\ IF GivenMu(i) = 0
                 THEN \A j \in Rows : P(i, j) = IF j = i THEN One ELSE 0
                 ELSE /\ P(i, i) = ExpNeg(GivenMu(i) * GivenDeltaT)
                      /\ \A j \in Rows \ {i} :
                            CutTo(P(i, j), (One - P(i, i)) * GivenRate(i, j), GivenMu(i))
              /\ \A j \in Rows : P(i, j) >= 0
              /\ One - (Len(Given) - 1) <= SeqSum(At(ProbMatrix, i))
              /\ SeqSum(At(ProbMatrix, i)) <= One

\* a matrix of three states with numbers on its diagonal, converted for a cycle of
\* length 1: row 0 splits what leaves it unevenly
C16_Witness ==
    /\ call.op = "continuous_to_discrete"
    /\ OffDiagonalRatesGiven
    /\ raised = NoError
    /\ Len(Given) = 3
    /\ At(At(Given, 0), 0) = Some(3)
    /\ GivenDeltaT = 1
    /\ GivenMu(0) = 3
    /\ 0 < P(0, 1) /\ P(0, 1) < P(0, 2)

\* the rate matrix discrete_to_continuous returned
RateMatrix == ret[1].items

R(i, j) == At(At(RateMatrix, i), j)

\* C17: for a probability matrix and a delta_t > 0, discrete_to_continuous returns
\* a matrix of the same shape whose diagonal entries are all None, and in a row
\* with p_ii = 1 every off-diagonal rate is the number 0, not inf and not nan.
C17_AbsorbingRowsHaveZeroRates ==
    (call.op = "discrete_to_continuous" /\ GivenDeltaT > 0) =>
        /\ raised = NoError
        /\ ret # None
        /\ ret[1].type = "list"
        /\ Len(RateMatrix) = Len(Given)
        /\ \A i \in Rows :
              /\ Len(At(RateMatrix, i)) = Len(At(Given, i))
              /\ R(i, i) = None
              /\ \A j \in Rows \ {i} : R(i, j) # None
              /\ At(At(Given, i), i) = One => \A j \in Rows \ {i} : R(i, j) = Some(Fin(0))

\* a matrix of two states converted, one row with p_ii = 1 and one that leaves
C17_Witness ==
    /\ call.op = "discrete_to_continuous"
    /\ raised = NoError
    /\ Len(Given) = 2
    /\ At(At(Given, 0), 0) = One
    /\ At(At(Given, 1), 1) = Half
    /\ R(0, 1) = Some(Fin(0))
    /\ R(1, 0) # Some(Fin(0))

\* a float that is a number, and not negative
FiniteNonNegative(x) == x.kind = "finite" /\ x.v >= 0

\* C18: for a valid probability matrix, rows with p_ii = 0 included, and a
\* delta_t > 0, every off-diagonal entry discrete_to_continuous returns is a finite
\* number >= 0; and continuous_to_discrete returns probabilities for every rate
\* matrix whose off-diagonal entries are rates, rows with no outgoing rate included.
C18_DegeneracyHandled ==
    /\ (call.op = "discrete_to_continuous" /\ GivenDeltaT > 0) =>
          /\ raised = NoError
          /\ \A i \in Rows : \A j \in Rows \ {i} :
                R(i, j) # None /\ FiniteNonNegative(R(i, j)[1])
    /\ (call.op = "continuous_to_discrete" /\ OffDiagonalRatesGiven) =>
          /\ raised = NoError
          /\ \A i \in Rows : \A j \in Rows : 0 <= P(i, j) /\ P(i, j) <= One

-----------------------------------------------------------------------------
(* A second simulate call on the same model *)

\* the caller of a finished simulate calls it once more, with a new list of the
\* values the first call was given and the same n_time_steps; rng is omitted both
\* times, so each call draws from a new source seeded with 0
SimulateAgain ==
    /\ pc = "done"
    /\ Len(runs) = 1
    /\ heap' = Append(heap, runs[1].initial_condition)
    /\ ic0' = runs[1].initial_condition
    /\ Enter(Len(heap) + 1, runs[1].n_time_steps)

NextRerun ==
    \/ Simulate
    \/ StepBegin
    \/ SampleState
    \/ SkipState
    \/ StepEnd
    \/ RecordFinal
    \/ SimulateAgain

SpecRerun == Init /\ [][NextRerun]_vars

\* the series hold what the call under way has recorded, and nothing else
C19_StartsFresh ==
    pc # "idle" =>
        \A i \in States :
            /\ Len(SizeSeries(i)) = (IF pc = "loop" THEN k ELSE k + 1)
            /\ Len(ToSeries(i)) = k
            /\ Len(SizeSeries(i)) > 0 => At(SizeSeries(i), 0) = At(ic0, i)

C19_SameSeries ==
    (/\ Len(runs) = 2
     /\ runs[1].initial_condition = runs[2].initial_condition
     /\ runs[1].n_time_steps = runs[2].n_time_steps) =>
        /\ runs[2].numInStatesOverTime = runs[1].numInStatesOverTime
        /\ runs[2].numToStatesOverTime = runs[1].numToStatesOverTime

\* C19: every simulate call starts from empty series and the initial condition it
\* is given, whatever an earlier call on the model left; and two calls on one model
\* with equal initial-condition values and equal n_time_steps, both without rng,
\* end with the same occupancy series and the same inbound-transition series.
C19_RerunRepeats == C19_StartsFresh /\ C19_SameSeries

\* a second call has returned, after draws that moved units
C19_Witness ==
    /\ pc = "done"
    /\ Len(runs) = 2
    /\ runs[2].n_time_steps >= 1
    /\ Len(runs[2].draws) >= 1
    /\ \E i \in States : At(SizeSeries(i), obj.n_time_steps) # At(ic0, i)
    /\ runs[2].numInStatesOverTime = obj.numInStatesOverTime

\* the list the caller passed as initial_condition, as it is now
CallersList == heap[call.initial_condition]

\* C20: when simulate has returned, the list the caller passed as
\* initial_condition holds the values it held at the call, and the transition
\* matrix and the lists of positive probabilities and of their destinations are
\* those the constructor made.
C20_InitialConditionUntouched ==
    (pc = "done" /\ call.op = "simulate") =>
        /\ CallersList = ic0
        /\ obj.transition_prob_matrix \in ValidProbMatrices
        /\ obj.nonZeroProbs =
               [i \in 1 .. obj.n_states |-> NonZeroProbs(obj.transition_prob_matrix[i])]
        /\ obj.indicesNonZeroProbs =
               [i \in 1 .. obj.n_states |-> NonZeroIndices(obj.transition_prob_matrix[i], 0)]

====
